---- MODULE Spec2Model ----
(***************************************************************************)
(* mokapot/confidence.py: the construction of a LinearConfidence or a      *)
(* CrossLinkedConfidence object, step by step, and the level accessor.     *)
(*                                                                         *)
(* A DataFrame is a record [columns, rows].  The metadata columns have     *)
(* string labels (MetaColumns) and every row carries them as fields; the   *)
(* columns the constructors append have integer labels, kept in insertion  *)
(* order in `columns` and per row in `ints`; the columns the result tables *)
(* gain have string labels, kept per row in `named`.  A row also carries   *)
(* its index label `idx` (what .loc looks up) and `rid`, the position of   *)
(* the row in the input, which the program never reads: it only names the  *)
(* row in the properties.                                                  *)
(* Python's True/False are modelled as 1/0.                                *)
(***************************************************************************)
EXTENDS Integers, Sequences, FiniteSets, TLC

VARIABLES
    pc,          \* position in the constructor: new, base, subclass, tdc, assign, done, error
    cls,         \* the class being constructed
    desc,        \* constructor argument: are higher scores better?
    psms,        \* constructor argument: the dataset
    scores,      \* constructor argument: one score per row of psms.metadata
    self,        \* the instance attributes set so far
    peptides,    \* local of _assign_confidence
    level,       \* position of the for loop of _assign_confidence
    tdc_input,   \* the working table as _perform_tdc received it
    pep_calls,   \* the arguments of every call of the PEP primitive
    raised,      \* the exception that ended construction, if any
    lookup       \* the last attribute lookup through __getattr__ and its outcome

vars == <<pc, cls, desc, psms, scores, self, peptides, level, tdc_input,
          pep_calls, raised, lookup>>

(***************************************************************************)
(* Bounds of the inputs.                                                   *)
(***************************************************************************)
MaxRows == 2
WideRows == 3
MaxScore == 2
NumPeptides == 2
MaxFeatures == 2

(***************************************************************************)
(* Values.                                                                 *)
(***************************************************************************)
NoCols == [c \in {} |-> 0]
NoFrame == [columns |-> <<>>, rows |-> <<>>]
NA == <<"NA", 0>>

MetaColumns == <<"spectrum", "peptide">>

_level_labs ==
    [psms |-> "PSMs", peptides |-> "Peptides", proteins |-> "Proteins",
     csms |-> "Cross-Linked PSMs", peptide_pairs |-> "Peptide Pairs"]

LinearLevels == <<"psms", "peptides">>
CrossLinkedLevels == <<"csms", "peptide_pairs">>

Range(s) == {s[i] : i \in 1..Len(s)}

Max(S) == CHOOSE x \in S : \A y \in S : y <= x

(***************************************************************************)
(* pandas operations, as far as the program uses them.                     *)
(***************************************************************************)
\* len(df.columns)
ColumnCount(df) == Len(MetaColumns) + Len(df.columns)

\* df.columns[-1], read only after a column was appended
LastColumn(df) == df.columns[Len(df.columns)]

\* df[label] = values, for an integer label: an existing column of that
\* label is overwritten in place, a new one is appended
SetItem(df, label, values) ==
    [columns |-> IF label \in Range(df.columns) THEN df.columns
                 ELSE Append(df.columns, label),
     rows |-> [i \in 1..Len(df.rows) |->
                 [df.rows[i] EXCEPT !.ints = (label :> values[i]) @@ @]]]

\* df[name] = values, for a string label; a row that gets no value holds NA
SetNamed(df, name, values) ==
    [df EXCEPT !.rows = [i \in 1..Len(df.rows) |->
                 [df.rows[i] EXCEPT !.named =
                     (name :> IF i \in DOMAIN values THEN values[i] ELSE NA) @@ @]]]

\* df.loc[:, label].values
Column(df, label) == [i \in 1..Len(df.rows) |-> df.rows[i].ints[label]]

\* values[mask] and df.loc[mask, :]
RECURSIVE Mask(_, _)
Mask(values, mask) ==
    IF values = <<>> THEN <<>>
    ELSE IF Head(mask) THEN <<Head(values)>> \o Mask(Tail(values), Tail(mask))
    ELSE Mask(Tail(values), Tail(mask))

\* ~mask
Invert(mask) == [i \in 1..Len(mask) |-> ~mask[i]]

\* series.astype(bool).values
AsBool(values) == [i \in 1..Len(values) |-> values[i] # 0]

\* numpy: (boolean array == n); True compares as 1 and False as 0
BoolEquals(mask, n) ==
    [i \in 1..Len(mask) |-> IF mask[i] THEN n = 1 ELSE n = 0]

\* lexicographic order on integer tuples of one length
RECURSIVE LexLess(_, _)
LexLess(a, b) ==
    /\ a # <<>>
    /\ \/ Head(a) < Head(b)
       \/ Head(a) = Head(b) /\ LexLess(Tail(a), Tail(b))

\* rows ordered by keys ascending; rows of equal keys keep their order
\* (pandas leaves the order of rows of equal keys open; nothing below reads it)
StableSort(rows, keys) ==
    LET n == Len(rows)
        rank(i) == 1 + Cardinality({j \in 1..n :
                          \/ LexLess(keys[j], keys[i])
                          \/ keys[j] = keys[i] /\ j < i})
    IN  [p \in 1..n |-> rows[CHOOSE i \in 1..n : rank(i) = p]]

\* df.sort_values(label, ascending=...)
sort_values(df, label, ascending) ==
    [df EXCEPT !.rows = StableSort(df.rows,
        [i \in 1..Len(df.rows) |->
            IF ascending THEN <<df.rows[i].ints[label]>>
            ELSE <<0 - df.rows[i].ints[label]>>])]

\* df.reset_index(drop=True)
reset_index(df) ==
    [df EXCEPT !.rows = [i \in 1..Len(df.rows) |-> [df.rows[i] EXCEPT !.idx = i - 1]]]

\* df.drop(label, axis=1)
drop(df, label) ==
    [columns |-> SelectSeq(df.columns, LAMBDA c : c # label),
     rows |-> [i \in 1..Len(df.rows) |->
                 [df.rows[i] EXCEPT !.ints =
                     [c \in (DOMAIN @) \ {label} |-> @[c]]]]]

\* df.rename(columns={label: name}); a label that is no column is ignored
rename(df, label, name) ==
    IF label \notin Range(df.columns) THEN df
    ELSE [columns |-> SelectSeq(df.columns, LAMBDA c : c # label),
          rows |-> [i \in 1..Len(df.rows) |->
                      [df.rows[i] EXCEPT
                          !.named = (name :> df.rows[i].ints[label]) @@ @,
                          !.ints = [c \in (DOMAIN @) \ {label} |-> @[c]]]]]

\* df.loc[idx]: for each label of idx in turn, every row carrying that label
RECURSIVE LocRows(_, _)
LocRows(rows, idx) ==
    IF idx = <<>> THEN <<>>
    ELSE SelectSeq(rows, LAMBDA r : r.idx = Head(idx)) \o LocRows(rows, Tail(idx))

loc(df, idx) == [df EXCEPT !.rows = LocRows(df.rows, idx)]

(***************************************************************************)
(* _groupby_max.  The shuffle makes the order of rows of equal key and     *)
(* equal value arbitrary, so the row that is last in its group after the   *)
(* ascending sort is any of the rows holding the group's largest value.    *)
(* The operator is the set of index sequences the call can return: one     *)
(* label per distinct key, keys ascending.                                 *)
(***************************************************************************)
KeyOf(row, by_cols) == [i \in 1..Len(by_cols) |-> row[by_cols[i]]]

GroupOf(df, by_cols, key) ==
    {i \in 1..Len(df.rows) : KeyOf(df.rows[i], by_cols) = key}

\* the rows drop_duplicates(keep="last") can keep for a key
GroupLast(df, by_cols, max_col, key) ==
    LET g == GroupOf(df, by_cols, key)
        top == Max({df.rows[i].ints[max_col] : i \in g})
    IN  {i \in g : df.rows[i].ints[max_col] = top}

SortedKeys(df, by_cols) ==
    LET keys == {KeyOf(df.rows[i], by_cols) : i \in 1..Len(df.rows)}
    IN  [p \in 1..Cardinality(keys) |->
            CHOOSE k \in keys :
                Cardinality({k2 \in keys : LexLess(k2, k)}) = p - 1]

_groupby_max(df, by_cols, max_col) ==
    LET keys == SortedKeys(df, by_cols)
        labels == {df.rows[i].idx : i \in 1..Len(df.rows)}
    IN  {idx \in [1..Len(keys) -> labels] :
            \A p \in 1..Len(keys) :
                \E i \in GroupLast(df, by_cols, max_col, keys[p]) :
                    idx[p] = df.rows[i].idx}

(***************************************************************************)
(* The primitives the program consumes.  A q-value or PEP is a function of *)
(* the score within one call; the value returned for an observation of     *)
(* score s is written <<"q", s>> and <<"pep", s>>.                         *)
(***************************************************************************)
\* qvalues.tdc: one q-value per observation, in the order of the input
tdc(scores_, targets, desc_) == [i \in 1..Len(scores_) |-> <<"q", scores_[i]>>]

\* qvalues.crosslink_tdc: same shape
crosslink_tdc(scores_, targets, desc_) ==
    [i \in 1..Len(scores_) |-> <<"q", scores_[i]>>]

\* qvality.getQvaluesFromScores: one PEP per target score, in the order of
\* the target scores.  What the library does with an empty sample is not
\* fixed by the program: it may raise or return.
getQvaluesFromScores(targetScores, decoyScores) ==
    {[raised |-> FALSE,
      pep |-> [i \in 1..Len(targetScores) |-> <<"pep", targetScores[i]>>]]}
    \cup
    (IF targetScores = <<>> \/ decoyScores = <<>>
     THEN {[raised |-> TRUE, pep |-> <<>>]} ELSE {})

(***************************************************************************)
(* Inputs.  Row order of the input does not reach the results (the first   *)
(* operation shuffles and sorts), so the tables are enumerated up to it:   *)
(* spectra are numbered in row order, peptides in order of appearance.     *)
(* The index labels are the row positions (a RangeIndex), or the last row  *)
(* repeats label 0 (as after concatenating two files).                     *)
(***************************************************************************)
Classes == {"LinearConfidence", "CrossLinkedConfidence"}

TargetLabels(c) == IF c = "LinearConfidence" THEN {0, 1} ELSE {0, 1, 2}

SpectrumColumns(n) ==
    {s \in [1..n -> 1..n] :
        /\ n > 0 => s[1] = 1
        /\ \A i \in 2..n : s[i] \in {s[i-1], s[i-1] + 1}}

PeptideColumns(n) ==
    {p \in [1..n -> 1..NumPeptides] :
        /\ n > 0 => p[1] = 1
        /\ \A i \in 2..n : p[i] <= 1 + Max({p[j] : j \in 1..(i-1)})}

IndexColumns(n) ==
    {[i \in 1..n |-> i - 1], [i \in 1..n |-> IF i = n THEN 0 ELSE i - 1]}

Metadata(n) ==
    {[i \in 1..n |-> [rid |-> i, idx |-> x[i], spectrum |-> s[i],
                      peptide |-> p[i], ints |-> NoCols, named |-> NoCols]] :
        x \in IndexColumns(n), s \in SpectrumColumns(n), p \in PeptideColumns(n)}

Datasets(c, max_rows) ==
    UNION {
        {[metadata |-> m,
          columns |-> MetaColumns \o [i \in 1..f |-> "feature"],
          targets |-> t,
          _spectrum_columns |-> <<"spectrum">>,
          _peptide_columns |-> <<"peptide">>] :
            m \in Metadata(n), t \in [1..n -> TargetLabels(c)], f \in 1..MaxFeatures}
        : n \in 0..max_rows}

Call(max_rows) ==
    /\ pc = "new"
    /\ cls \in Classes
    /\ desc \in BOOLEAN
    /\ psms \in Datasets(cls, max_rows)
    /\ scores \in [1..Len(psms.metadata) -> 1..MaxScore]
    /\ self = NoCols
    /\ peptides = NoFrame
    /\ level = 1
    /\ tdc_input = NoFrame
    /\ pep_calls = <<>>
    /\ raised = "None"
    /\ lookup = [attr |-> "None", raised |-> "None", value |-> NoFrame]

Init == Call(MaxRows)

\* the same calls on tables of up to WideRows rows
InitWide == Call(WideRows)

(***************************************************************************)
(* Confidence.__init__                                                     *)
(***************************************************************************)
ConfidenceInit ==
    /\ pc = "new"
    /\ LET data == SetItem([columns |-> <<>>, rows |-> psms.metadata],
                           Len(psms.columns), scores)
       IN  self' = [_data |-> data,
                    _score_column |-> LastColumn(data),
                    _confidence_estimates |-> <<>>]
    /\ pc' = "base"
    /\ UNCHANGED <<cls, desc, psms, scores, peptides, level, tdc_input,
                   pep_calls, raised, lookup>>

(***************************************************************************)
(* LinearConfidence.__init__ and CrossLinkedConfidence.__init__, up to the *)
(* call of _perform_tdc                                                    *)
(***************************************************************************)
AppendTargets ==
    LET data == SetItem(self._data, ColumnCount(self._data), psms.targets)
    IN  self' = [_target_column |-> LastColumn(data),
                 _psm_columns |-> psms._spectrum_columns,
                 _peptide_columns |-> psms._peptide_columns]
                @@ [self EXCEPT !._data = data]

LinearConfidenceInit ==
    /\ pc = "base"
    /\ cls = "LinearConfidence"
    /\ AppendTargets
    /\ pc' = "subclass"
    /\ UNCHANGED <<cls, desc, psms, scores, peptides, level, tdc_input,
                   pep_calls, raised, lookup>>

CrossLinkedConfidenceInit ==
    /\ pc = "base"
    /\ cls = "CrossLinkedConfidence"
    /\ AppendTargets
    /\ pc' = "subclass"
    /\ UNCHANGED <<cls, desc, psms, scores, peptides, level, tdc_input,
                   pep_calls, raised, lookup>>

(***************************************************************************)
(* Confidence._perform_tdc(self._psm_columns)                              *)
(***************************************************************************)
_perform_tdc(psm_columns) ==
    \E psm_idx \in _groupby_max(self._data, psm_columns, self._score_column) :
        self' = [self EXCEPT !._data = loc(self._data, psm_idx)]

PerformTdc ==
    /\ pc = "subclass"
    /\ _perform_tdc(self._psm_columns)
    /\ tdc_input' = self._data
    /\ pc' = "tdc"
    /\ UNCHANGED <<cls, desc, psms, scores, peptides, level, pep_calls,
                   raised, lookup>>

(***************************************************************************)
(* _assign_confidence, up to the loop: the peptide-level table             *)
(***************************************************************************)
GroupPeptides ==
    /\ pc = "tdc"
    /\ \E peptide_idx \in
            _groupby_max(self._data, self._peptide_columns, self._score_column) :
          peptides' = loc(self._data, peptide_idx)
    /\ level' = 1
    /\ pc' = "assign"
    /\ UNCHANGED <<cls, desc, psms, scores, self, tdc_input, pep_calls,
                   raised, lookup>>

(***************************************************************************)
(* One iteration of the loop of _assign_confidence.                        *)
(***************************************************************************)
\* the table the iteration works on: zip(levels, (self._data, peptides))
LevelData(i) == IF i = 1 THEN self._data ELSE peptides

\* data.loc[targets, :].sort_values(...).reset_index(drop=True)
\*     .drop(target_column, axis=1).rename(columns={score_column: "mokapot score"})
Report(data, targets, desc_) ==
    rename(
        drop(
            reset_index(
                sort_values([data EXCEPT !.rows = Mask(data.rows, targets)],
                            self._score_column, ~desc_)),
            self._target_column),
        self._score_column, "mokapot score")

\* the positive sample of the PEP primitive
LinearTargetScores(scores_, targets) == Mask(scores_, targets)
CrossLinkedTargetScores(scores_, targets) == Mask(scores_, BoolEquals(targets, 2))

\* self._confidence_estimates[level] = data, a dict in insertion order
DictSet(dict, key, value) ==
    IF \E i \in 1..Len(dict) : dict[i].key = key
    THEN [i \in 1..Len(dict) |->
            IF dict[i].key = key THEN [key |-> key, value |-> value] ELSE dict[i]]
    ELSE Append(dict, [key |-> key, value |-> value])

\* PepFits, were the assignment to accept an array of any length
PepAlwaysFits(data, pep) == TRUE

\* data["mokapot PEP"] = pep
\* pandas refuses an array whose length is not the number of rows
PepFits(data, pep) == Len(pep) = Len(data.rows)

AssignLevel(levels, qvals, target_scores, decoy_scores, targets) ==
    LET data == LevelData(level)
        with_q == SetNamed(data, "mokapot q-value", qvals)
        report == Report(with_q, targets, desc)
    IN  /\ pep_calls' = Append(pep_calls,
                [level |-> levels[level], targets |-> target_scores,
                 decoys |-> decoy_scores])
        /\ \E out \in getQvaluesFromScores(target_scores, decoy_scores) :
            \/ /\ out.raised
               /\ raised' = "PrimitiveError"
               /\ pc' = "error"
               /\ level' = level
               /\ IF level = 1
                  THEN self' = [self EXCEPT !._data = with_q] /\ peptides' = peptides
                  ELSE self' = self /\ peptides' = with_q
            \/ /\ ~out.raised
               /\ ~PepFits(report, out.pep)
               /\ raised' = "ValueError"
               /\ pc' = "error"
               /\ level' = level
               /\ IF level = 1
                  THEN self' = [self EXCEPT !._data = with_q] /\ peptides' = peptides
                  ELSE self' = self /\ peptides' = with_q
            \/ /\ ~out.raised
               /\ PepFits(report, out.pep)
               /\ raised' = raised
               /\ LET stored == DictSet(self._confidence_estimates, levels[level],
                                        SetNamed(report, "mokapot PEP", out.pep))
                  IN  IF level = 1
                      THEN /\ self' = [self EXCEPT !._data = with_q,
                                                   !._confidence_estimates = stored]
                           /\ peptides' = peptides
                      ELSE /\ self' = [self EXCEPT !._confidence_estimates = stored]
                           /\ peptides' = with_q
               /\ IF level = Len(levels)
                  THEN pc' = "done" /\ level' = level
                  ELSE pc' = pc /\ level' = level + 1

LinearAssignLevel ==
    /\ pc = "assign"
    /\ cls = "LinearConfidence"
    /\ LET scores_ == Column(LevelData(level), self._score_column)
           targets == AsBool(Column(LevelData(level), self._target_column))
       IN  AssignLevel(LinearLevels, tdc(scores_, targets, desc),
                       LinearTargetScores(scores_, targets),
                       Mask(scores_, Invert(targets)), targets)
    /\ UNCHANGED <<cls, desc, psms, scores, tdc_input, lookup>>

CrossLinkedAssignLevel ==
    /\ pc = "assign"
    /\ cls = "CrossLinkedConfidence"
    /\ LET scores_ == Column(LevelData(level), self._score_column)
           targets == AsBool(Column(LevelData(level), self._target_column))
       IN  AssignLevel(CrossLinkedLevels, crosslink_tdc(scores_, targets, desc),
                       CrossLinkedTargetScores(scores_, targets),
                       Mask(scores_, Invert(targets)), targets)
    /\ UNCHANGED <<cls, desc, psms, scores, tdc_input, lookup>>

(***************************************************************************)
(* Confidence.levels and Confidence.__getattr__, on a constructed object   *)
(***************************************************************************)
levels == [i \in 1..Len(self._confidence_estimates) |->
              self._confidence_estimates[i].key]

LevelNames == DOMAIN _level_labs

\* __getattr__, were a missing key answered with an empty table
getattr_or_empty(attr) ==
    /\ pc = "done"
    /\ IF \E i \in 1..Len(self._confidence_estimates) :
              self._confidence_estimates[i].key = attr
       THEN lookup' = [attr |-> attr, raised |-> "None",
                       value |-> (CHOOSE e \in Range(self._confidence_estimates) :
                                     e.key = attr).value]
       ELSE lookup' = [attr |-> attr, raised |-> "None", value |-> NoFrame]
    /\ UNCHANGED <<pc, cls, desc, psms, scores, self, peptides, level,
                   tdc_input, pep_calls, raised>>

__getattr__(attr) ==
    /\ pc = "done"
    /\ IF \E i \in 1..Len(self._confidence_estimates) :
              self._confidence_estimates[i].key = attr
       THEN lookup' = [attr |-> attr, raised |-> "None",
                       value |-> (CHOOSE e \in Range(self._confidence_estimates) :
                                     e.key = attr).value]
       ELSE lookup' = [attr |-> attr, raised |-> "AttributeError", value |-> NoFrame]
    /\ UNCHANGED <<pc, cls, desc, psms, scores, self, peptides, level,
                   tdc_input, pep_calls, raised>>

GetAttr == \E attr \in LevelNames : __getattr__(attr)

Next ==
    \/ ConfidenceInit
    \/ LinearConfidenceInit
    \/ CrossLinkedConfidenceInit
    \/ PerformTdc
    \/ GroupPeptides
    \/ LinearAssignLevel
    \/ CrossLinkedAssignLevel
    \/ GetAttr

Spec == Init /\ [][Next]_vars

SpecWide == InitWide /\ [][Next]_vars

(***************************************************************************)
(* Vocabulary of the properties.                                           *)
(***************************************************************************)
Min(S) == CHOOSE x \in S : \A y \in S : x <= y

Constructed == pc = "done"

\* the result table stored i-th
Estimate(i) == self._confidence_estimates[i].value

StoredCount ==
    IF "_confidence_estimates" \in DOMAIN self
    THEN Len(self._confidence_estimates) ELSE 0

\* how often the input row rid occurs in a sequence of rows
Occurrences(rows, rid) == Cardinality({i \in 1..Len(rows) : rows[i].rid = rid})

InputRows == 1..Len(psms.metadata)

IsTarget(row) == psms.targets[row.rid] # 0

ScoreOf(row) == row.ints[self._score_column]

\* the index labels of the input are pairwise distinct, and the dataset does
\* not have exactly one column besides the metadata
UniqueIndex ==
    \A i, j \in InputRows : psms.metadata[i].idx = psms.metadata[j].idx => i = j
DistinctColumns == Len(psms.columns) # Len(MetaColumns) + 1
PlainInput == UniqueIndex /\ DistinctColumns

\* C1: after _perform_tdc(K) the working table holds exactly one row for
\* each value of K that occurred before the call, no row of another value,
\* and the surviving row's score is the largest score of its group.
C1_OneRowPerKey ==
    pc = "tdc" =>
        LET K == self._psm_columns
            before == tdc_input.rows
            after == self._data.rows
            keys(rows) == {KeyOf(rows[i], K) : i \in 1..Len(rows)}
        IN  /\ keys(after) = keys(before)
            /\ \A k \in keys(before) :
                  Cardinality({i \in 1..Len(after) : KeyOf(after[i], K) = k}) = 1
            /\ \A i \in 1..Len(after) :
                  ScoreOf(after[i]) =
                      Max({ScoreOf(before[j]) : j \in
                              {j \in 1..Len(before) :
                                  KeyOf(before[j], K) = KeyOf(after[i], K)}})

\* C2: every stored result table holds exactly the target rows among the
\* rows that survived competition at its level, holds no decoy, and is
\* ordered by "mokapot score": non-increasing when desc, else non-decreasing.
C2_TargetsOnlySorted ==
    Constructed =>
        \A i \in 1..StoredCount :
            LET rows == Estimate(i).rows
                survivors == LevelData(i).rows
            IN  /\ \A rid \in InputRows :
                      Occurrences(rows, rid) =
                          IF psms.targets[rid] # 0 THEN Occurrences(survivors, rid) ELSE 0
                /\ \A j \in 1..Len(rows) : IsTarget(rows[j])
                /\ \A j \in 1..Len(rows) : "mokapot score" \in DOMAIN rows[j].named
                /\ \A j, k \in 1..Len(rows) :
                      j < k =>
                          IF desc
                          THEN rows[j].named["mokapot score"] >= rows[k].named["mokapot score"]
                          ELSE rows[j].named["mokapot score"] <= rows[k].named["mokapot score"]

\* C3: every peptide-level row is a row of the PSM-level table and the
\* peptide-level table has at most as many rows, before the decoys are
\* dropped (the working tables) and after (the stored tables).
C3_PeptidesWithinPsms ==
    /\ pc \in {"assign", "done", "error"} =>
          /\ \A rid \in InputRows :
                Occurrences(peptides.rows, rid) > 0 =>
                    Occurrences(self._data.rows, rid) > 0
          /\ Len(peptides.rows) <= Len(self._data.rows)
    /\ Constructed =>
          /\ \A rid \in InputRows :
                Occurrences(Estimate(2).rows, rid) > 0 =>
                    Occurrences(Estimate(1).rows, rid) > 0
          /\ Len(Estimate(2).rows) <= Len(Estimate(1).rows)

\* C4: after construction levels is [psms, peptides] for LinearConfidence
\* and [csms, peptide_pairs] for CrossLinkedConfidence, and reading a level
\* name that is not among them raises AttributeError and returns no table.
C4_LevelsAndLookup ==
    Constructed =>
        LET expected == IF cls = "LinearConfidence" THEN LinearLevels
                        ELSE CrossLinkedLevels
        IN  /\ levels = expected
            /\ lookup.attr # "None" =>
                  IF lookup.attr \in Range(expected)
                  THEN /\ lookup.raised = "None"
                       /\ \E i \in 1..StoredCount :
                             /\ levels[i] = lookup.attr
                             /\ lookup.value = Estimate(i)
                  ELSE lookup.raised = "AttributeError"

C4_Witness ==
    /\ Constructed
    /\ cls = "LinearConfidence"
    /\ lookup.attr = "csms"
    /\ lookup.raised = "AttributeError"
    /\ Len(Estimate(1).rows) > 0

\* C5: in CrossLinkedConfidence every call of the PEP primitive gets the
\* scores of the surviving rows of label 2 as its positive sample and the
\* scores of the surviving rows of label 0 as its negative sample.  Stated
\* for inputs with distinct index labels and distinct score and label
\* columns.
C5_PepSamples ==
    (cls = "CrossLinkedConfidence" /\ PlainInput) =>
        \A c \in 1..Len(pep_calls) :
            LET data == LevelData(c)
                labels == Column(data, self._target_column)
                scores_ == Column(data, self._score_column)
            IN  /\ pep_calls[c].targets =
                      Mask(scores_, [i \in 1..Len(labels) |-> labels[i] = 2])
                /\ pep_calls[c].decoys =
                      Mask(scores_, [i \in 1..Len(labels) |-> labels[i] = 0])

TargetsWithoutDecoys(data) ==
    LET targets == AsBool(Column(data, self._target_column))
    IN  /\ \E i \in 1..Len(targets) : targets[i]
        /\ \A i \in 1..Len(targets) : targets[i]

\* C7: when the rows that survive competition at a level hold no decoy, no
\* result table is stored for that level and construction does not
\* complete.  Stated for the case of targets without decoys and for inputs
\* with distinct index labels and distinct score and label columns.
C7_DegenerateLevelFails ==
    PlainInput =>
        /\ \A i \in 1..StoredCount : ~TargetsWithoutDecoys(LevelData(i))
        /\ Constructed =>
              ~TargetsWithoutDecoys(self._data) /\ ~TargetsWithoutDecoys(peptides)

\* the best score of a group under the sort direction
Best(S) == IF desc THEN Max(S) ELSE Min(S)

KeptIsBest(kept, from, by_cols) ==
    \A i \in 1..Len(kept) :
        ScoreOf(kept[i]) =
            Best({ScoreOf(from[j]) : j \in
                    {j \in 1..Len(from) :
                        KeyOf(from[j], by_cols) = KeyOf(kept[i], by_cols)}})

\* C8: the row competition keeps per spectrum key and per peptide key is
\* the best-scoring row of its group: the highest score when desc, the
\* lowest when not desc.  Stated for inputs with distinct index labels and
\* distinct score and label columns.
C8_BestRowKept ==
    PlainInput =>
        /\ pc \in {"tdc", "assign", "done", "error"} =>
              KeptIsBest(self._data.rows, tdc_input.rows, self._psm_columns)
        /\ pc \in {"assign", "done", "error"} =>
              KeptIsBest(peptides.rows, self._data.rows, self._peptide_columns)

\* every sample passed to the PEP primitive so far was non-empty
SamplesNonEmpty ==
    \A c \in 1..Len(pep_calls) :
        pep_calls[c].targets # <<>> /\ pep_calls[c].decoys # <<>>

\* C9: in every stored table the PEP of a row is the value the PEP
\* primitive returned for that row's score and the q-value of a row is the
\* value the q-value primitive returned for that row.  Stated for inputs
\* with distinct index labels and distinct score and label columns, and for
\* runs in which every sample passed to the PEP primitive was non-empty.
C9_ValuesStayWithRows ==
    (Constructed /\ PlainInput /\ SamplesNonEmpty) =>
        \A i \in 1..StoredCount :
            \A j \in 1..Len(Estimate(i).rows) :
                LET row == Estimate(i).rows[j]
                IN  /\ row.named["mokapot PEP"] = <<"pep", row.named["mokapot score"]>>
                    /\ row.named["mokapot q-value"] = <<"q", row.named["mokapot score"]>>

\* C10: the score column and the label column are two distinct columns,
\* neither replaces a metadata column, _score_column names the column
\* holding the scores for the whole run, and appending the labels does not
\* overwrite the scores.
C10_ScoreAndLabelColumns ==
    /\ pc # "new" =>
          \A i \in 1..Len(self._data.rows) :
              LET row == self._data.rows[i]
              IN  /\ ScoreOf(row) = scores[row.rid]
                  /\ row.spectrum = psms.metadata[row.rid].spectrum
                  /\ row.peptide = psms.metadata[row.rid].peptide
    /\ pc \notin {"new", "base"} =>
          /\ self._score_column # self._target_column
          /\ \A i \in 1..Len(self._data.rows) :
                self._data.rows[i].ints[self._target_column] =
                    psms.targets[self._data.rows[i].rid]
====
